---- MODULE Spec2Model ----
(***************************************************************************)
(* Model of lib/platform.h (class Platform): the two's-complement range    *)
(* functions min_value / max_value / max_value_unsigned, the range queries *)
(* built on them, toString, and the life cycle of a descriptor (presets    *)
(* and platform files).                                                    *)
(*                                                                         *)
(* TLC's integers are 32 bits wide, so a 64-bit machine word is modelled   *)
(* as the set of its one-bits (a subset of 0..63) and the C++ operators    *)
(* <<, >>, ~, unary -, "- 1", <= are defined on that representation.       *)
(* Mathematical integers (the values the specification speaks of) are      *)
(* sign-magnitude binary numerals [neg, mag] of unbounded length.          *)
(***************************************************************************)
EXTENDS Integers, FiniteSets, Sequences

VARIABLES plat, last
vars == <<plat, last>>

-----------------------------------------------------------------------------
(* Bounds of the model *)

\* values within MaxDelta of every anchor value are used as query arguments
MaxDelta == 1

\* longest list of search directories passed to set(name, err, paths, debug)
MaxPaths == 2

-----------------------------------------------------------------------------
(* 64-bit words: long long / unsigned long long, MathLib::bigint / biguint *)

WordBits == 64
BitPos == 0 .. (WordBits - 1)
SignBit == WordBits - 1

\* std::uint8_t
UInt8 == 0 .. 255
Narrow8(n) == n % 256

Zero == {}
One == {0}
AllOnes == BitPos
LLONG_MIN == {SignBit}

Low(w) == CHOOSE i \in w : \A j \in w : i <= j
High(w) == CHOOSE i \in w : \A j \in w : j <= i

Not(w) == BitPos \ w
Inc(w) == IF w = AllOnes THEN Zero
          ELSE LET k == Low(Not(w)) IN {i \in w : i > k} \cup {k}
Dec(w) == IF w = Zero THEN AllOnes
          ELSE LET k == Low(w) IN {i \in w : i > k} \cup (0 .. (k - 1))
Neg(w) == Inc(Not(w))
Shl(w, k) == {i + k : i \in w} \cap BitPos
Shr(w, k) == {i - k : i \in w} \cap BitPos

\* a <= b on unsigned long long
ULe(a, b) == a = b \/ High((a \ b) \cup (b \ a)) \in b
\* a <= b on long long
SLe(a, b) == IF (SignBit \in a) # (SignBit \in b) THEN SignBit \in a ELSE ULe(a, b)

-----------------------------------------------------------------------------------------------------------------------------------------------------
(* Outcomes of an evaluation: a value, a failed assert (abort), an         *)
(* exception, or undefined behaviour (anything may happen).  An operator   *)
(* applied to an operand that is no value yields that operand's outcome.   *)

Ok(v) == [st |-> "ok", val |-> v]
AssertFailed == [st |-> "assert"]
Undefined == [st |-> "ub"]
Thrown(what) == [st |-> "throw", what |-> what]

\* assert(cond); return o;  -- a build with NDEBUG skips the test
Asserting(cond, o) == IF cond THEN {o} ELSE {AssertFailed, o}

\* 1LL << k and what follows it: undefined for a negative or too large
\* count and for a result that does not fit long long
ShlLL(w, k) ==
    IF k < 0 \/ k >= WordBits \/ SignBit \in w \/ (w # Zero /\ High(w) + k >= SignBit)
    THEN Undefined ELSE Ok(Shl(w, k))
\* 1ULL << k
ShlULL(w, k) == IF k < 0 \/ k >= WordBits THEN Undefined ELSE Ok(Shl(w, k))
\* E >> k on unsigned long long
ShrULL(w, k) == IF k < 0 \/ k >= WordBits THEN Undefined ELSE Ok(Shr(w, k))
\* -E on long long
NegLL(o) == IF o.st # "ok" THEN o
            ELSE IF o.val = LLONG_MIN THEN Undefined ELSE Ok(Neg(o.val))
\* E - 1LL
DecLL(o) == IF o.st # "ok" THEN o
            ELSE IF o.val = LLONG_MIN THEN Undefined ELSE Ok(Dec(o.val))
\* E - 1ULL
DecULL(o) == IF o.st # "ok" THEN o ELSE Ok(Dec(o.val))
\* value <= E and value >= E on long long, value <= E on unsigned long long
LeLL(value, o) == IF o.st # "ok" THEN o ELSE Ok(SLe(value, o.val))
LtLL(value, o) == IF o.st # "ok" THEN o ELSE Ok(SLe(value, o.val) /\ value # o.val)
GeLL(value, o) == IF o.st # "ok" THEN o ELSE Ok(SLe(o.val, value))
LeULL(value, o) == IF o.st # "ok" THEN o ELSE Ok(ULe(value, o.val))
\* a && b: b is evaluated only if a is true
AndAlso(a, b) == IF a.st # "ok" THEN a ELSE IF a.val THEN b ELSE Ok(FALSE)

-----------------------------------------------------------------------------
(* RangeArithmetic: Platform::min_value, max_value, max_value_unsigned *)

min_value(bit) ==
    Asserting(bit > 0,
              IF bit >= 64 THEN Ok(LLONG_MIN)
              ELSE NegLL(ShlLL(One, bit - 1)))

max_value_shift(bit) ==
    Asserting(bit > 0,
              IF bit >= 64 THEN ShrULL(Not(Zero), 1)
              ELSE DecLL(ShlLL(One, bit)))

max_value(bit) ==
    Asserting(bit > 0,
              IF bit >= 64 THEN ShrULL(Not(Zero), 1)
              ELSE DecLL(ShlLL(One, bit - 1)))

max_value_unsigned_nodec(bit) ==
    Asserting(bit > 0,
              IF bit >= 64 THEN Ok(Not(Zero))
              ELSE ShlULL(One, bit))

max_value_unsigned(bit) ==
    Asserting(bit > 0,
              IF bit >= 64 THEN Ok(Not(Zero))
              ELSE DecULL(ShlULL(One, bit)))

-----
(* PlatformDescriptor: the data members of class Platform *)

WidthFields == {"char_bit", "short_bit", "int_bit", "long_bit", "long_long_bit"}
SizeFields == {"sizeof_bool", "sizeof_short", "sizeof_int", "sizeof_long",
               "sizeof_long_long", "sizeof_float", "sizeof_double",
               "sizeof_long_double", "sizeof_wchar_t", "sizeof_size_t",
               "sizeof_pointer"}

\* enum Type : std::uint8_t
Unspecified == 0
Native == 1
Win32A == 2
Win32W == 3
Win64 == 4
Unix32 == 5
Unix64 == 6
File == 7
Types == {Unspecified, Native, Win32A, Win32W, Win64, Unix32, Unix64, File}

\* char defaultSign: 'u', 's' or '\0'
Signs == {"u", "s", "\\0"}

\* a descriptor whose char is 8 bits wide and whose widths follow its sizes
Descriptor(t, sign, szLong, szLongDouble, szWchar, szPtr) ==
    [char_bit |-> 8, short_bit |-> 16, int_bit |-> 32,
     long_bit |-> 8 * szLong, long_long_bit |-> 64,
     sizeof_bool |-> 1, sizeof_short |-> 2, sizeof_int |-> 4,
     sizeof_long |-> szLong, sizeof_long_long |-> 8, sizeof_float |-> 4,
     sizeof_double |-> 8, sizeof_long_double |-> szLongDouble,
     sizeof_wchar_t |-> szWchar, sizeof_size_t |-> szPtr, sizeof_pointer |-> szPtr,
     defaultSign |-> sign, type |-> t]

-----------------------------------------------------------------------------
(* PlatformDescriptor queries *)

isIntValue_lt(p, value) ==
    {AndAlso(GeLL(value, lo), LtLL(value, hi)) :
        lo \in min_value(p.int_bit), hi \in max_value(p.int_bit)}

\* bool isIntValue(MathLib::bigint value) const
isIntValue_bigint(p, value) ==
    {AndAlso(GeLL(value, lo), LeLL(value, hi)) :
        lo \in min_value(p.int_bit), hi \in max_value(p.int_bit)}

isIntValue_umax(p, value) ==
    {LeULL(value, intMax) : intMax \in max_value_unsigned(p.int_bit)}

\* bool isIntValue(MathLib::biguint value) const
isIntValue_biguint(p, value) ==
    {LeULL(value, intMax) : intMax \in max_value(p.int_bit)}

\* bool isLongValue(MathLib::bigint value) const
isLongValue_bigint(p, value) ==
    {AndAlso(GeLL(value, lo), LeLL(value, hi)) :
        lo \in min_value(p.long_bit), hi \in max_value(p.long_bit)}

isLongValue_umax(p, value) ==
    {LeULL(value, longMax) : longMax \in max_value_unsigned(p.long_bit)}

\* bool isLongValue(MathLib::biguint value) const
isLongValue_biguint(p, value) ==
    {LeULL(value, longMax) : longMax \in max_value(p.long_bit)}

isLongLongValue_signed(p, value) ==
    {AndAlso(GeLL(value, lo), LeLL(value, hi)) :
        lo \in min_value(p.long_long_bit), hi \in max_value(p.long_long_bit)}

\* bool isLongLongValue(MathLib::biguint value) const  (the only overload: a
\* MathLib::bigint argument is converted to biguint, keeping its bit pattern)
isLongLongValue(p, value) ==
    {LeULL(value, longLongMax) : longLongMax \in max_value(p.long_long_bit)}

\* long long unsignedCharMax() const: char_bit + 1 is an int, narrowed to the
\* std::uint8_t parameter of max_value
unsignedCharMax(p) == max_value(Narrow8(p.char_bit + 1))
signedCharMax(p) == max_value(p.char_bit)
signedCharMin(p) == min_value(p.char_bit)

isWindows(p) == p.type = Win32A \/ p.type = Win32W \/ p.type = Win64

toString_sentinel(pt) ==
    CASE pt = Unspecified -> Ok("unspecified")
      [] pt = Native -> Ok("native")
      [] pt = Win32A -> Ok("win32A")
      [] pt = Win32W -> Ok("win32W")
      [] pt = Win64 -> Ok("win64")
      [] pt = Unix32 -> Ok("unix32")
      [] pt = Unix64 -> Ok("unix64")
      [] pt = File -> Ok("platformFile")
      [] OTHER -> Ok("unknown")

\* static const char *toString(Type pt)
toString(pt) ==
    CASE pt = Unspecified -> Ok("unspecified")
      [] pt = Native -> Ok("native")
      [] pt = Win32A -> Ok("win32A")
      [] pt = Win32W -> Ok("win32W")
      [] pt = Win64 -> Ok("win64")
      [] pt = Unix32 -> Ok("unix32")
      [] pt = Unix64 -> Ok("unix64")
      [] pt = File -> Ok("platformFile")
      [] OTHER -> Thrown("unknown platform")

-----------------------------------------------------------------------------
(* Mathematical integers, as the specification speaks of them: binary      *)
(* numerals of any length with a sign.  mag is the set of the one-bits of  *)
(* the magnitude; zero is not negative.                                    *)

MInt(neg, mag) == [neg |-> neg /\ mag # {}, mag |-> mag]
MZero == MInt(FALSE, {})
\* m <= n on naturals given by their one-bits
NLe(m, n) == \/ m = n
             \/ \E i \in n \ m : \A j \in (m \ n) : j < i
MLe(x, y) ==
    CASE x.neg /\ ~y.neg -> TRUE
      [] ~x.neg /\ y.neg -> FALSE
      [] ~x.neg /\ ~y.neg -> NLe(x.mag, y.mag)
      [] x.neg /\ y.neg -> NLe(y.mag, x.mag)

\* 2^k,  -(2^k),  2^k - 1
MPow2(k) == MInt(FALSE, {k})
MNegPow2(k) == MInt(TRUE, {k})
MPow2Minus1(k) == MInt(FALSE, 0 .. (k - 1))
\* 2 * x + 1 for x >= 0
MTwicePlus1(x) == MInt(FALSE, {i + 1 : i \in x.mag} \cup {0})

\* the value of a word read as unsigned long long / as long long
\* (two's complement: a word with the sign bit set stands for u - 2^64)
UnsignedVal(w) == MInt(FALSE, w)
SignedVal(w) == IF SignBit \in w THEN MInt(TRUE, Inc(BitPos \ w)) ELSE MInt(FALSE, w)

\* the specification's minSigned(b), maxSigned(b), maxUnsigned(b)
Clamp(b) == IF b >= 64 THEN 64 ELSE b
minSigned(b) == MNegPow2(Clamp(b) - 1)
maxSigned(b) == MPow2Minus1(Clamp(b) - 1)
maxUnsigned(b) == MPow2Minus1(Clamp(b))

\* the word of a natural number below 2^31
Bits(n) == {i \in 0 .. 30 : (n \div (2 ^ i)) % 2 = 1}

-----------------------------------------------------------------------------
(* Argument values of the range queries: everything within MaxDelta of     *)
(* 0, of the 64-bit extremes, of +-2^31, 2^32 and of +-2^(b-1), 2^b for the *)
(* width b the query reads.                                                *)

RECURSIVE Plus(_, _)
Plus(w, d) == IF d = 0 THEN w
              ELSE IF d > 0 THEN Plus(Inc(w), d - 1)
              ELSE Plus(Dec(w), d + 1)

Around(w) == {Plus(w, d) : d \in (-MaxDelta) .. MaxDelta}

Anchors(b) ==
    LET k == Clamp(b) - 1
    IN {Zero, LLONG_MIN, {31}, Neg({31}), {32}, {k}, Neg({k}), {(k + 1) % WordBits}}

SampleValues(b) == UNION {Around(w) : w \in Anchors(b)}

-----------------------------------------------------------------------------
(* Range queries on a populated descriptor.  last records the latest call: *)
(* the operation, its argument and its outcome.                            *)

\* Platform::Platform() on an LP64 host
DefaultPlatform == Descriptor(Native, "s", 8, 16, 4, 8)

\* no call has been made, or the caller has dropped the latest result
NoCall == [op |-> "none"]

\* descriptors that differ from the default in one width, which holds any
\* positive value of its std::uint8_t field
InitRange ==
    /\ plat \in {[DefaultPlatform EXCEPT ![f] = b] : f \in WidthFields, b \in 1 .. 255}
    /\ last = NoCall

Call(op, arg, o) == [op |-> op, arg |-> arg, out |-> o]

IsIntValueSigned ==
    /\ last = NoCall
    /\ \E v \in SampleValues(plat.int_bit) : \E o \in isIntValue_bigint(plat, v) :
        /\ last' = Call("isIntValue(bigint)", v, o)
        /\ UNCHANGED plat

IsIntValueUnsigned ==
    /\ last = NoCall
    /\ \E v \in SampleValues(plat.int_bit) : \E o \in isIntValue_biguint(plat, v) :
        /\ last' = Call("isIntValue(biguint)", v, o)
        /\ UNCHANGED plat

IsLongValueSigned ==
    /\ last = NoCall
    /\ \E v \in SampleValues(plat.long_bit) : \E o \in isLongValue_bigint(plat, v) :
        /\ last' = Call("isLongValue(bigint)", v, o)
        /\ UNCHANGED plat

IsLongValueUnsigned ==
    /\ last = NoCall
    /\ \E v \in SampleValues(plat.long_bit) : \E o \in isLongValue_biguint(plat, v) :
        /\ last' = Call("isLongValue(biguint)", v, o)
        /\ UNCHANGED plat

IsLongLongValue ==
    /\ last = NoCall
    /\ \E v \in SampleValues(plat.long_long_bit) : \E o \in isLongLongValue(plat, v) :
        /\ last' = Call("isLongLongValue", v, o)
        /\ UNCHANGED plat

SignedCharMin ==
    /\ last = NoCall
    /\ \E o \in signedCharMin(plat) :
        /\ last' = Call("signedCharMin", plat.char_bit, o)
        /\ UNCHANGED plat

SignedCharMax ==
    /\ last = NoCall
    /\ \E o \in signedCharMax(plat) :
        /\ last' = Call("signedCharMax", plat.char_bit, o)
        /\ UNCHANGED plat

UnsignedCharMax ==
    /\ last = NoCall
    /\ \E o \in unsignedCharMax(plat) :
        /\ last' = Call("unsignedCharMax", plat.char_bit, o)
        /\ UNCHANGED plat

\* both overloads of isIntValue applied to one bit pattern
IsIntValueBoth ==
    /\ last = NoCall
    /\ \E v \in SampleValues(plat.int_bit) :
         \E s \in isIntValue_bigint(plat, v) : \E u \in isIntValue_biguint(plat, v) :
           /\ last' = [op |-> "isIntValue(both)", arg |-> v, bigint |-> s, biguint |-> u]
           /\ UNCHANGED plat

\* both overloads of isLongValue applied to one bit pattern
IsLongValueBoth ==
    /\ last = NoCall
    /\ \E v \in SampleValues(plat.long_bit) :
         \E s \in isLongValue_bigint(plat, v) : \E u \in isLongValue_biguint(plat, v) :
           /\ last' = [op |-> "isLongValue(both)", arg |-> v, bigint |-> s, biguint |-> u]
           /\ UNCHANGED plat

\* min_value, max_value and max_value_unsigned applied to one width
Limits ==
    /\ last = NoCall
    /\ \E f \in WidthFields :
      \E lo \in min_value(plat[f]) : \E hi \in max_value(plat[f]) :
        \E uhi \in max_value_unsigned(plat[f]) :
          /\ last' = [op |-> "limits", arg |-> plat[f],
                      min |-> lo, max |-> hi, umax |-> uhi]
          /\ UNCHANGED plat

\* the caller is done with the result of the latest call (the queries are
\* const and synchronous: one call at a time, none changes the descriptor)
Return ==
    /\ last # NoCall
    /\ last' = NoCall
    /\ UNCHANGED plat

NextRange ==
    \/ IsIntValueSigned
    \/ IsIntValueUnsigned
    \/ IsLongValueSigned
    \/ IsLongValueUnsigned
    \/ IsLongLongValue
    \/ IsIntValueBoth
    \/ IsLongValueBoth
    \/ SignedCharMin
    \/ SignedCharMax
    \/ UnsignedCharMax
    \/ Limits
    \/ Return

SpecRange == InitRange /\ [][NextRange]_vars

-----------------------------------------------------------------------------
(* PresetTable and PlatformLoader.  lib/platform.h declares set,           *)
(* loadFromFile and loadFromXmlDocument; their bodies follow sections 4.3, *)
(* 4.4 and 6 of the specification.                                         *)

\* the fields a platform description must give as numbers
RequiredAttrs == WidthFields \cup SizeFields

\* set(Type t): the preset of t, or failure for a tag that names no preset
PresetTable(t) ==
    CASE t = Unspecified -> Descriptor(Unspecified, "\\0", 8, 16, 4, 8)
      [] t = Native -> Descriptor(Native, "s", 8, 16, 4, 8)
      [] t = Win32A -> Descriptor(Win32A, "\\0", 4, 8, 2, 4)
      [] t = Win32W -> Descriptor(Win32W, "\\0", 4, 8, 2, 4)
      [] t = Win64 -> Descriptor(Win64, "\\0", 4, 8, 2, 8)
      [] t = Unix32 -> Descriptor(Unix32, "\\0", 4, 12, 4, 4)
      [] t = Unix64 -> Descriptor(Unix64, "\\0", 8, 16, 4, 8)

Presets == {Unspecified, Native, Win32A, Win32W, Win64, Unix32, Unix64}

set_Type(p, t) ==
    IF t \in Presets THEN [ret |-> TRUE, plat |-> PresetTable(t)]
    ELSE [ret |-> FALSE, plat |-> p]

\* the preset a label names ("platformFile" names none)
PresetLabels == {"unspecified", "native", "win32A", "win32W", "win64", "unix32", "unix64"}
PresetOf(label) == CHOOSE t \in Presets : toString(t) = Ok(label)

\* a parsed description: the root element's name, the attributes it gives,
\* those among them whose text is no number, and the sign of plain char
IsNumber(doc, f) == f \in DOMAIN doc.attrs /\ f \notin doc.garbled
ParseOk(doc) ==
    /\ doc.root = "platform"
    /\ \A f \in RequiredAttrs : IsNumber(doc, f)

SignOf(doc) ==
    CASE doc.sign = "unsigned" -> "u"
      [] doc.sign = "signed" -> "s"
      [] OTHER -> "\\0"

loadFromXmlDocument_inplace(p, doc) ==
    [ret |-> ParseOk(doc),
     plat |-> IF doc.root # "platform" THEN p
              ELSE [f \in DOMAIN p |->
                      IF f \in RequiredAttrs
                      THEN IF IsNumber(doc, f) THEN doc.attrs[f] ELSE p[f]
                      ELSE IF f = "defaultSign" THEN SignOf(doc) ELSE File]]

\* bool loadFromXmlDocument(const tinyxml2::XMLDocument *doc)
loadFromXmlDocument(p, doc) ==
    IF ParseOk(doc)
    THEN [ret |-> TRUE,
          plat |-> [f \in DOMAIN p |->
                      IF f \in RequiredAttrs THEN doc.attrs[f]
                      ELSE IF f = "defaultSign" THEN SignOf(doc) ELSE File]]
    ELSE [ret |-> FALSE, plat |-> p]

\* two well-formed descriptions
DocAvr8 ==
    [root |-> "platform", sign |-> "unsigned", garbled |-> {},
     attrs |-> [char_bit |-> 8, short_bit |-> 16, int_bit |-> 16, long_bit |-> 32,
                long_long_bit |-> 64, sizeof_bool |-> 1, sizeof_short |-> 2,
                sizeof_int |-> 2, sizeof_long |-> 4, sizeof_long_long |-> 8,
                sizeof_float |-> 4, sizeof_double |-> 4, sizeof_long_double |-> 4,
                sizeof_wchar_t |-> 2, sizeof_size_t |-> 2, sizeof_pointer |-> 2]]
DocDsp ==
    [root |-> "platform", sign |-> "unknown", garbled |-> {},
     attrs |-> [char_bit |-> 16, short_bit |-> 16, int_bit |-> 16, long_bit |-> 32,
                long_long_bit |-> 40, sizeof_bool |-> 1, sizeof_short |-> 1,
                sizeof_int |-> 1, sizeof_long |-> 2, sizeof_long_long |-> 4,
                sizeof_float |-> 2, sizeof_double |-> 2, sizeof_long_double |-> 4,
                sizeof_wchar_t |-> 1, sizeof_size_t |-> 2, sizeof_pointer |-> 2]]

Without(doc, f) ==
    [doc EXCEPT !.attrs = [g \in (DOMAIN doc.attrs) \ {f} |-> doc.attrs[g]]]
NonNumeric(doc, f) == [doc EXCEPT !.garbled = @ \cup {f}]

\* the documents handed to loadFromXmlDocument: well-formed ones, ones that
\* lack or garble one required attribute, and one with a foreign root
Docs ==
    {DocAvr8, DocDsp, [DocAvr8 EXCEPT !.root = "settings"]}
        \cup {Without(DocAvr8, f) : f \in RequiredAttrs}
        \cup {NonNumeric(DocDsp, f) : f \in RequiredAttrs}

\* the files of the host: a path is <<directory, name>>, "" the directory
\* of a path taken literally
NoFile == [root |-> "", sign |-> "", garbled |-> {}, attrs |-> <<>>]
ExeDir == "/opt/cppcheck"
SearchDirs == {"/tmp", "/usr/share/platforms"}
ReadFile(path) ==
    CASE path = <<"", "local.xml">> -> DocDsp
      [] path = <<"/tmp", "avr8.xml">> -> Without(DocAvr8, "sizeof_pointer")
      [] path = <<"/usr/share/platforms", "avr8.xml">> -> DocAvr8
      [] path = <<"/tmp", "broken.xml">> -> NonNumeric(DocDsp, "int_bit")
      [] path = <<ExeDir, "exe.xml">> -> DocAvr8
      [] OTHER -> NoFile

FileNames == {"local.xml", "avr8.xml", "broken.xml", "exe.xml",
              "nonexistent-platform-xyz", "platformFile"}

\* open and parse one candidate; trace is the line a debug run prints
LoadCandidate(p, path) ==
    IF ReadFile(path) = NoFile
    THEN [ret |-> FALSE, plat |-> p, trace |-> <<path, "not-found">>]
    ELSE LET r == loadFromXmlDocument(p, ReadFile(path))
         IN [ret |-> r.ret, plat |-> r.plat,
             trace |-> <<path, IF r.ret THEN "success" ELSE "parse-error">>]

\* the candidates in order; the first that opens and parses wins
RECURSIVE TryCandidates(_, _, _, _)
TryCandidates(p, cands, i, tr) ==
    IF i > Len(cands) THEN [ret |-> FALSE, plat |-> p, trace |-> tr]
    ELSE LET r == LoadCandidate(p, cands[i])
         IN IF r.ret THEN [ret |-> TRUE, plat |-> r.plat, trace |-> Append(tr, r.trace)]
            ELSE TryCandidates(r.plat, cands, i + 1, Append(tr, r.trace))

\* bool loadFromFile(const char exename[], const std::string &filename, bool debug)
loadFromFile(p, exedir, filename, debug) ==
    LET r == TryCandidates(p, << <<"", filename>>, <<exedir, filename>> >>, 1, <<>>)
    IN [ret |-> r.ret, plat |-> r.plat, trace |-> IF debug THEN r.trace ELSE <<>>]

\* bool set(const std::string& platformstr, std::string& errstr,
\*          const std::vector<std::string>& paths, bool debug)
set(p, platformstr, paths, debug) ==
    IF platformstr \in PresetLabels
    THEN [ret |-> TRUE, plat |-> set_Type(p, PresetOf(platformstr)).plat,
          errstr |-> <<>>, trace |-> <<>>]
    ELSE LET cands == << <<"", platformstr>> >>
                        \o [i \in 1 .. Len(paths) |-> <<paths[i], platformstr>>]
                        \o << <<ExeDir, platformstr>> >>
             r == TryCandidates(p, cands, 1, <<>>)
         IN [ret |-> r.ret, plat |-> r.plat,
             errstr |-> IF r.ret THEN <<>> ELSE <<"unrecognized platform", platformstr>>,
             trace |-> IF debug THEN r.trace ELSE <<>>]

-----------------------------------------------------------------------------
(* The life cycle of a descriptor *)

Init ==
    /\ plat = DefaultPlatform
    /\ last = NoCall

PathLists == UNION {[1 .. n -> SearchDirs] : n \in 0 .. MaxPaths}

SetType ==
    /\ last = NoCall
    /\ \E t \in UInt8 :
         LET r == set_Type(plat, t)
         IN /\ plat' = r.plat
            /\ last' = [op |-> "set(Type)", arg |-> t, ret |-> r.ret]

SetName ==
    /\ last = NoCall
    /\ \E name \in PresetLabels \cup FileNames : \E paths \in PathLists :
         \E debug \in BOOLEAN :
           LET r == set(plat, name, paths, debug)
           IN /\ plat' = r.plat
              /\ last' = [op |-> "set", arg |-> <<name, paths, debug>>, ret |-> r.ret,
                          errstr |-> r.errstr, trace |-> r.trace]

LoadFromFile ==
    /\ last = NoCall
    /\ \E exedir \in SearchDirs \cup {ExeDir} : \E name \in FileNames :
         \E debug \in BOOLEAN :
           LET r == loadFromFile(plat, exedir, name, debug)
           IN /\ plat' = r.plat
              /\ last' = [op |-> "loadFromFile", arg |-> <<exedir, name, debug>>,
                          ret |-> r.ret, trace |-> r.trace]

LoadFromXmlDocument ==
    /\ last = NoCall
    /\ \E doc \in Docs :
         LET r == loadFromXmlDocument(plat, doc)
         IN /\ plat' = r.plat
            /\ last' = [op |-> "loadFromXmlDocument", arg |-> doc, ret |-> r.ret]

\* const char *toString() const
ToString ==
    /\ last = NoCall
    /\ last' = Call("toString", plat.type, toString(plat.type))
    /\ UNCHANGED plat

\* static const char *toString(Type pt), for any value of the enum's
\* underlying std::uint8_t
ToStringOf ==
    /\ last = NoCall
    /\ \E pt \in UInt8 :
         /\ last' = Call("toString(Type)", pt, toString(pt))
         /\ UNCHANGED plat

IsWindows ==
    /\ last = NoCall
    /\ last' = Call("isWindows", plat.type, Ok(isWindows(plat)))
    /\ UNCHANGED plat

Next ==
    \/ SetType
    \/ SetName
    \/ LoadFromFile
    \/ LoadFromXmlDocument
    \/ ToString
    \/ ToStringOf
    \/ IsWindows
    \/ Return

Spec == Init /\ [][Next]_vars

-----------------------------------------------------------------------------
(* Properties of the range functions and queries (under SpecRange) *)

IsOk(o) == o.st = "ok"
Returns(o, v) == o.st = "ok" /\ o.val = v

\* minSigned(b) <= v <= maxSigned(b), v read as long long
InSignedRange(v, b) ==
    MLe(minSigned(b), SignedVal(v)) /\ MLe(SignedVal(v), maxSigned(b))
\* 0 <= v <= maxSigned(b), v read as long long
InNonNegativeRange(v, b) ==
    MLe(MZero, SignedVal(v)) /\ MLe(SignedVal(v), maxSigned(b))

\* the words of 2147483647, 2147483648, -2147483648 and -2147483649
W_2147483647 == 0 .. 30
W_2147483648 == {31}
W_m2147483648 == 31 .. 63
W_m2147483649 == (0 .. 30) \cup (32 .. 63)

\* the layer of words and numerals agrees with the integers where both exist
ArithmeticAgreesWithIntegers ==
    \A m \in 0 .. 40 : \A n \in 0 .. 40 :
        /\ NLe(Bits(m), Bits(n)) <=> m <= n
        /\ ULe(Bits(m), Bits(n)) <=> m <= n
        /\ SLe(Bits(m), Bits(n)) <=> m <= n
        /\ SLe(Neg(Bits(m)), Bits(n))
        /\ SLe(Neg(Bits(m)), Neg(Bits(n))) <=> n <= m
        /\ MLe(SignedVal(Neg(Bits(m))), SignedVal(Neg(Bits(n)))) <=> n <= m
        /\ Inc(Bits(n)) = Bits(n + 1)
        /\ Dec(Bits(n + 1)) = Bits(n)
        /\ Plus(Bits(m), n) = Bits(m + n)
        /\ (n <= m => Plus(Bits(m), -n) = Bits(m - n))
        /\ Shl(Bits(n), 3) = Bits(8 * n)
        /\ Shr(Bits(n), 2) = Bits(n \div 4)
        /\ SignedVal(Bits(n)) = MInt(FALSE, Bits(n))
        /\ SignedVal(Neg(Bits(n))) = MInt(TRUE, Bits(n))
        /\ MTwicePlus1(UnsignedVal(Bits(n))) = UnsignedVal(Bits(2 * n + 1))
        /\ W_2147483647 = Bits(2147483647)
        /\ W_2147483648 = Inc(Bits(2147483647))
        /\ SignedVal(W_m2147483648) = MInt(TRUE, W_2147483648)
        /\ SignedVal(W_m2147483649) = MInt(TRUE, Inc(W_2147483648))

\* C1: for int_bit (long_bit) in 1..64 the signed overload isIntValue(v)
\* (isLongValue(v)) returns true iff minSigned(bits) <= v <= maxSigned(bits);
\* with int_bit = 32 it accepts 2147483647 and -2147483648 and rejects
\* 2147483648 and -2147483649.
C1_SignedRange ==
    /\ (last.op = "isIntValue(bigint)" /\ plat.int_bit \in 1 .. 64)
          => Returns(last.out, InSignedRange(last.arg, plat.int_bit))
    /\ (last.op = "isLongValue(bigint)" /\ plat.long_bit \in 1 .. 64)
          => Returns(last.out, InSignedRange(last.arg, plat.long_bit))
    /\ (last.op = "isIntValue(bigint)" /\ plat.int_bit = 32)
          => /\ last.arg = W_2147483647 => Returns(last.out, TRUE)
             /\ last.arg = W_2147483648 => Returns(last.out, FALSE)
             /\ last.arg = W_m2147483648 => Returns(last.out, TRUE)
             /\ last.arg = W_m2147483649 => Returns(last.out, FALSE)

\* isIntValue(-2147483648) has returned true on a descriptor with int_bit = 32
C1_Witness ==
    /\ last.op = "isIntValue(bigint)"
    /\ plat.int_bit = 32
    /\ last.arg = W_m2147483648
    /\ Returns(last.out, TRUE)

\* C2 as stated: for long_long_bit in 1..64, isLongLongValue(v) returns true
\* iff minSigned(long_long_bit) <= v <= maxSigned(long_long_bit), v a signed
\* value, so that negative values inside the range are accepted.
C2_Original ==
    (last.op = "isLongLongValue" /\ plat.long_long_bit \in 1 .. 64)
        => Returns(last.out, InSignedRange(last.arg, plat.long_long_bit))

\* C2 amended: for long_long_bit in 1..64, isLongLongValue(v) returns true
\* iff 0 <= v <= maxSigned(long_long_bit), v a signed value: every negative
\* value is rejected.
C2_NonNegativeRange ==
    (last.op = "isLongLongValue" /\ plat.long_long_bit \in 1 .. 64)
        => Returns(last.out, InNonNegativeRange(last.arg, plat.long_long_bit))

\* isLongLongValue has rejected a negative value of the signed range
C2_Witness ==
    /\ last.op = "isLongLongValue"
    /\ plat.long_long_bit \in 1 .. 64
    /\ SignBit \in last.arg
    /\ InSignedRange(last.arg, plat.long_long_bit)
    /\ Returns(last.out, FALSE)

\* C3: for every width in 1..64 the unsigned overloads isIntValue(u),
\* isLongValue(u), isLongLongValue(u) return true iff u <= maxSigned(width),
\* u an unsigned value.
C3_UnsignedRange ==
    /\ (last.op = "isIntValue(biguint)" /\ plat.int_bit \in 1 .. 64)
          => Returns(last.out, MLe(UnsignedVal(last.arg), maxSigned(plat.int_bit)))
    /\ (last.op = "isLongValue(biguint)" /\ plat.long_bit \in 1 .. 64)
          => Returns(last.out, MLe(UnsignedVal(last.arg), maxSigned(plat.long_bit)))
    /\ (last.op = "isLongLongValue" /\ plat.long_long_bit \in 1 .. 64)
          => Returns(last.out, MLe(UnsignedVal(last.arg), maxSigned(plat.long_long_bit)))

\* isLongValue(u) has accepted u = maxSigned(long_bit) for a width below 64
C3_Witness ==
    /\ last.op = "isLongValue(biguint)"
    /\ plat.long_bit \in 1 .. 63
    /\ UnsignedVal(last.arg) = maxSigned(plat.long_bit)
    /\ Returns(last.out, TRUE)

\* C4: for b in 1..63, min_value(b) = -2^(b-1), max_value(b) = 2^(b-1) - 1 and
\* max_value_unsigned(b) = 2^b - 1, with no undefined operation; for b in
\* 64..255 they are -2^63, 2^63 - 1 and 2^64 - 1.
C4_Limits ==
    last.op = "limits" =>
        /\ last.arg \in 1 .. 63 =>
              /\ IsOk(last.min) /\ SignedVal(last.min.val) = MNegPow2(last.arg - 1)
              /\ IsOk(last.max) /\ SignedVal(last.max.val) = MPow2Minus1(last.arg - 1)
              /\ IsOk(last.umax) /\ UnsignedVal(last.umax.val) = MPow2Minus1(last.arg)
        /\ last.arg \in 64 .. 255 =>
              /\ IsOk(last.min) /\ SignedVal(last.min.val) = MNegPow2(63)
              /\ IsOk(last.max) /\ SignedVal(last.max.val) = MPow2Minus1(63)
              /\ IsOk(last.umax) /\ UnsignedVal(last.umax.val) = MPow2Minus1(64)

\* the three functions have been applied to the width 63
C4_Witness ==
    /\ last.op = "limits"
    /\ last.arg = 63
    /\ Returns(last.min, 62 .. 63)
    /\ Returns(last.max, 0 .. 61)
    /\ Returns(last.umax, 0 .. 62)

\* C5: for b in 1..64, min_value(b) <= 0 <= max_value(b); for b < 64,
\* max_value_unsigned(b) = 2 * max_value(b) + 1.
C5_Relations ==
    (last.op = "limits" /\ last.arg \in 1 .. 64) =>
        /\ IsOk(last.min) /\ MLe(SignedVal(last.min.val), MZero)
        /\ IsOk(last.max) /\ MLe(MZero, SignedVal(last.max.val))
        /\ last.arg < 64 =>
              /\ IsOk(last.umax)
              /\ UnsignedVal(last.umax.val) = MTwicePlus1(SignedVal(last.max.val))

\* the three functions have been applied to the width 1: -1, 0 and 1
C5_Witness ==
    /\ last.op = "limits"
    /\ last.arg = 1
    /\ Returns(last.min, AllOnes)
    /\ Returns(last.max, Zero)
    /\ Returns(last.umax, One)

AllWidthsPositive == \A f \in WidthFields : plat[f] > 0

\* C6 as stated: for every char_bit > 0, unsignedCharMax() returns
\* maxSigned(char_bit + 1), signedCharMax() returns maxSigned(char_bit) and
\* signedCharMin() returns minSigned(char_bit).
C6_CharLimits ==
    plat.char_bit > 0 =>
        /\ last.op = "unsignedCharMax" =>
              IsOk(last.out) /\ SignedVal(last.out.val) = maxSigned(plat.char_bit + 1)
        /\ last.op = "signedCharMax" =>
              IsOk(last.out) /\ SignedVal(last.out.val) = maxSigned(plat.char_bit)
        /\ last.op = "signedCharMin" =>
              IsOk(last.out) /\ SignedVal(last.out.val) = minSigned(plat.char_bit)

\* C9 as stated: on a descriptor whose widths are all > 0, no public query
\* fails the assert(bit > 0) of min_value / max_value.
C9_NoAssertFailure ==
    (AllWidthsPositive /\ last.op \in {"isIntValue(bigint)", "isIntValue(biguint)",
                                      "isLongValue(bigint)", "isLongValue(biguint)",
                                      "isLongLongValue", "signedCharMin",
                                      "signedCharMax", "unsignedCharMax"})
        => last.out.st # "assert"

\* C10: for every width in 1..64 and every v with 0 <= v <= 2^63 - 1 the two
\* overloads of isIntValue (of isLongValue) return the same; a negative value
\* is rejected by the signed overload only if it is below minSigned(width).
C10_OverloadsAgree ==
    /\ (last.op = "isIntValue(both)" /\ plat.int_bit \in 1 .. 64) =>
          /\ IsOk(last.bigint) /\ IsOk(last.biguint)
          /\ SignBit \notin last.arg => last.bigint.val = last.biguint.val
          /\ (SignBit \in last.arg /\ ~last.bigint.val)
                => ~MLe(minSigned(plat.int_bit), SignedVal(last.arg))
    /\ (last.op = "isLongValue(both)" /\ plat.long_bit \in 1 .. 64) =>
          /\ IsOk(last.bigint) /\ IsOk(last.biguint)
          /\ SignBit \notin last.arg => last.bigint.val = last.biguint.val
          /\ (SignBit \in last.arg /\ ~last.bigint.val)
                => ~MLe(minSigned(plat.long_bit), SignedVal(last.arg))

\* both overloads of isIntValue have rejected 2^(int_bit - 1)
C10_Witness ==
    /\ last.op = "isIntValue(both)"
    /\ plat.int_bit \in 2 .. 63
    /\ last.arg = {plat.int_bit - 1}
    /\ Returns(last.bigint, FALSE)
    /\ Returns(last.biguint, FALSE)

-----------------------------------------------------------------------------
(* Properties of toString and of the loader (under Spec) *)

\* C7: toString maps each of the eight tags to its label and throws for any
\* other tag value instead of returning a string.
C7_ToString ==
    last.op \in {"toString", "toString(Type)"} =>
        /\ last.arg = Unspecified => last.out = Ok("unspecified")
        /\ last.arg = Native => last.out = Ok("native")
        /\ last.arg = Win32A => last.out = Ok("win32A")
        /\ last.arg = Win32W => last.out = Ok("win32W")
        /\ last.arg = Win64 => last.out = Ok("win64")
        /\ last.arg = Unix32 => last.out = Ok("unix32")
        /\ last.arg = Unix64 => last.out = Ok("unix64")
        /\ last.arg = File => last.out = Ok("platformFile")
        /\ last.arg \notin 0 .. 7 => last.out.st = "throw"

\* toString has thrown for the tag value 8
C7_Witness ==
    /\ last.op = "toString(Type)"
    /\ last.arg = 8
    /\ last.out.st = "throw"

\* C8: a call of set(name, err, paths, debug), loadFromFile or
\* loadFromXmlDocument that returns failure leaves every field of the
\* descriptor as it was before the call, and set then gives a non-empty error
\* message.
C8_FailureLeavesDescriptor ==
    [][(last'.op \in {"set", "loadFromFile", "loadFromXmlDocument"} /\ ~last'.ret)
          => /\ plat' = plat
             /\ last'.op = "set" => last'.errstr # <<>>]_vars

\* set has failed after a candidate was found that does not parse, on a
\* descriptor that an earlier load had populated from a file
C8_Witness ==
    /\ last.op = "set"
    /\ ~last.ret
    /\ last.errstr # <<>>
    /\ \E i \in DOMAIN last.trace : last.trace[i][2] = "parse-error"
    /\ plat.type = File

====
